---- MODULE Spec2Model ----
(***************************************************************************)
(* Linear MPC for a double inverted pendulum on a cart.                    *)
(*                                                                         *)
(* Part I models the LMPC class (src/src/mpc.py) in exact rational         *)
(* arithmetic.  The decision variables of the QP are real.  The solver     *)
(* works to a tolerance: it reports "optimal" with the minimiser of the    *)
(* cost solve_mpc builds over the constraints solve_mpc builds, met        *)
(* exactly or only to the tolerance, and "infeasible" when the constraints *)
(* cannot be met; a problem whose constraints can be met to the tolerance  *)
(* but not exactly may get either verdict.                                 *)
(***************************************************************************)
EXTENDS Integers, Sequences, FiniteSets, TLC

\* ------------------------------------------------------------------ bounds
MaxN == 2        \* horizons N range over 1..MaxN
MaxNSim == 2     \* simulation lengths N_sim range over 0..MaxNSim

\* ------------------------------------------------------- rational numbers
\* A number is <<p, q>> = p / q in lowest terms with q > 0.
None == <<>>

Abs(i) == IF i < 0 THEN -i ELSE i

Sgn(i) == IF i < 0 THEN -1 ELSE 1

RECURSIVE Gcd(_, _)
Gcd(a, b) == IF b = 0 THEN a ELSE Gcd(b, a % b)

Rat(p, q) ==
    LET g == Gcd(Abs(p), Abs(q))
    IN  <<Sgn(q) * (p \div g), Abs(q) \div g>>

Whole(i) == <<i, 1>>

RatNeg(a) == <<-a[1], a[2]>>

RatAdd(a, b) ==
    LET g == Gcd(a[2], b[2])
    IN  Rat(a[1] * (b[2] \div g) + b[1] * (a[2] \div g), (a[2] \div g) * b[2])

RatSub(a, b) == RatAdd(a, RatNeg(b))

RatMul(a, b) ==
    IF a[1] = 0 \/ b[1] = 0 THEN Whole(0)
    ELSE LET g == Gcd(Abs(a[1]), b[2])
             h == Gcd(Abs(b[1]), a[2])
         IN  <<(a[1] \div g) * (b[1] \div h), (a[2] \div h) * (b[2] \div g)>>

RatDiv(a, b) == RatMul(a, <<Sgn(b[1]) * b[2], Abs(b[1])>>)

RatLess(a, b) == RatSub(a, b)[1] < 0

RatLeq(a, b) == RatSub(a, b)[1] <= 0

RatAbs(a) == <<Abs(a[1]), a[2]>>

\* ------------------------------------------------------- vectors, matrices
\* An array: the function is evaluated once, element by element.
Tuple(f) == f \o <<>>

Rats(v) == Tuple([i \in 1..Len(v) |-> Whole(v[i])])

RatMat(M) == Tuple([i \in 1..Len(M) |-> Rats(M[i])])

RECURSIVE SumTo(_, _)
SumTo(f, k) == IF k = 0 THEN Whole(0) ELSE RatAdd(f[k], SumTo(f, k - 1))

Dot(u, v) == SumTo(Tuple([i \in 1..Len(u) |-> RatMul(u[i], v[i])]), Len(u))

MatVec(M, v) == Tuple([i \in 1..Len(M) |-> Dot(M[i], v)])

VecAdd(u, v) == Tuple([i \in 1..Len(u) |-> RatAdd(u[i], v[i])])

VecSub(u, v) == Tuple([i \in 1..Len(u) |-> RatSub(u[i], v[i])])

VecNeg(u) == Tuple([i \in 1..Len(u) |-> RatNeg(u[i])])

Zeros(k) == Tuple([i \in 1..k |-> Whole(0)])

ZerosMat(r, c) == Tuple([i \in 1..r |-> Zeros(c)])

Unit(k, j) == Tuple([i \in 1..k |-> IF i = j THEN Whole(1) ELSE Whole(0)])

Geq(u, v) == \A i \in 1..Len(u) : RatLeq(v[i], u[i])

Leq(u, v) == \A i \in 1..Len(u) : RatLeq(u[i], v[i])

QuadForm(v, P) == Dot(v, MatVec(P, v))

Diag(d) == Tuple([i \in 1..Len(d) |->
              Tuple([j \in 1..Len(d) |-> IF i = j THEN Whole(d[i]) ELSE Whole(0)])])

Column(M, j) == Tuple([i \in 1..Len(M) |-> M[i][j]])

\* numpy.linspace(start, stop, num): step = (stop - start) / (num - 1)
linspace(start, stop, num) ==
    LET div == num - 1
        step == IF div > 0 THEN RatDiv(RatSub(stop, start), Whole(div)) ELSE Whole(0)
    IN  Tuple([i \in 1..num |-> RatAdd(start, RatMul(Whole(i - 1), step))])

\* ------------------------------------------------------ LMPC.__init__
LMPC(A, B, N, Q, R, Qn, x_min, x_max, u_min, u_max) ==
    [A |-> A, B |-> B, N |-> N, n |-> Len(A), m |-> Len(B[1]),
     Q |-> Q, R |-> R, Qn |-> IF Qn # None THEN Qn ELSE Q,
     x_min |-> x_min, x_max |-> x_max, u_min |-> u_min, u_max |-> u_max,
     x_ref |-> Zeros(Len(A)), u_ref |-> Zeros(Len(B[1]))]

\* ------------------------------------------------------ LMPC.set_reference
\* mutant: u_ref sized by the state dimension
set_reference_state_dim(self, x_ref) ==
    [self EXCEPT !.x_ref = x_ref, !.u_ref = Zeros(self.n)]

set_reference(self, x_ref) ==
    [self EXCEPT !.x_ref = x_ref, !.u_ref = Zeros(self.m)]

\* ------------------------------------------------------ LMPC.solve_mpc
\* The problem solve_mpc builds, on an assignment (X, U) to its variables
\* X (N + 1 rows of n reals) and U (N rows of m reals); row k of the code is
\* element k + 1 here.

\* constraints.append(X[0] == x_current)
InitialCondition(X0, x_current) == X0 = x_current

\* mutant: row 0 is tied to the origin
InitialRowOrigin(self, x_current) == Zeros(self.n)

\* the value the initial condition leaves for row 0 of X
InitialRow(self, x_current) == x_current

\* self.A @ X[k] + self.B @ U[k]
DynamicsRhs(self, Xk, Uk) == VecAdd(MatVec(self.A, Xk), MatVec(self.B, Uk))

\* constraints.append(X[k + 1] == self.A @ X[k] + self.B @ U[k])
Dynamics(self, Xnext, Xk, Uk) == Xnext = DynamicsRhs(self, Xk, Uk)

\* for k in range(self.N + 1): the rows of X the state bounds are imposed on
StateBoundRows(self) == 0..self.N

\* for k in range(self.N): the rows of U the input bounds are imposed on
InputBoundRows(self) == 0..(self.N - 1)

\* if self.x_min is not None
HasStateLower(self) == self.x_min # None

HasStateUpper(self) == self.x_max # None

HasInputLower(self) == self.u_min # None

HasInputUpper(self) == self.u_max # None

StateLower(self, k, Xk) ==
    (HasStateLower(self) /\ k \in StateBoundRows(self)) => Geq(Xk, self.x_min)

StateUpper(self, k, Xk) ==
    (HasStateUpper(self) /\ k \in StateBoundRows(self)) => Leq(Xk, self.x_max)

InputLower(self, k, Uk) ==
    (HasInputLower(self) /\ k \in InputBoundRows(self)) => Geq(Uk, self.u_min)

InputUpper(self, k, Uk) ==
    (HasInputUpper(self) /\ k \in InputBoundRows(self)) => Leq(Uk, self.u_max)

\* The whole constraint list of one call.
Constraints(self, x_current, X, U) ==
    /\ InitialCondition(X[1], x_current)
    /\ \A k \in 0..(self.N - 1) : Dynamics(self, X[k + 2], X[k + 1], U[k + 1])
    /\ \A k \in 0..self.N : StateLower(self, k, X[k + 1]) /\ StateUpper(self, k, X[k + 1])
    /\ \A k \in 0..(self.N - 1) : InputLower(self, k, U[k + 1]) /\ InputUpper(self, k, U[k + 1])

\* the weight of row k of X in the cost: Q for k < N, Qn for k = N
Weight(self, k) == IF k < self.N THEN self.Q ELSE self.Qn

\* cost: stage terms for k in range(N), then the terminal term
RECURSIVE StageCost(_, _, _, _)
StageCost(self, X, U, k) ==
    IF k = 0 THEN Whole(0)
    ELSE RatAdd(RatAdd(QuadForm(VecSub(X[k], self.x_ref), self.Q),
                       QuadForm(VecSub(U[k], self.u_ref), self.R)),
                StageCost(self, X, U, k - 1))

Cost(self, X, U) ==
    RatAdd(StageCost(self, X, U, self.N),
           QuadForm(VecSub(X[self.N + 1], self.x_ref), self.Qn))

\* ------------------------------------------------------ the QP solver
\* The equality constraints leave U free and fix X: the trajectory from x0
\* under the inputs U.
RECURSIVE RollTo(_, _, _, _)
RollTo(self, x0, U, k) ==
    IF k = 0 THEN x0
    ELSE DynamicsRhs(self, RollTo(self, x0, U, k - 1), U[k])

Rollout(self, x0, U) == Tuple([k \in 1..(self.N + 1) |-> RollTo(self, x0, U, k - 1)])

\* U as one vector of N * m reals, and back
Flat(self, U) == Tuple([j \in 1..(self.N * self.m) |->
                    U[((j - 1) \div self.m) + 1][((j - 1) % self.m) + 1]])

Unflat(self, u) == Tuple([k \in 1..self.N |-> Tuple([i \in 1..self.m |-> u[(k - 1) * self.m + i]])])

\* Row k of X is Free[k] + Sens[k] * u: the response to x_current alone,
\* and the n x (N * m) matrix of its derivatives in the inputs.
Free(self, x_current) ==
    Rollout(self, InitialRow(self, x_current), ZerosMat(self.N, self.m))

Sens(self) ==
    LET resp == Tuple([j \in 1..(self.N * self.m) |->
                   Rollout(self, Zeros(self.n), Unflat(self, Unit(self.N * self.m, j)))])
    IN  Tuple([k \in 1..(self.N + 1) |->
           Tuple([i \in 1..self.n |-> Tuple([j \in 1..(self.N * self.m) |-> resp[j][k][i]])])])

\* The cost as a function of u is u'Hu + 2f'u + the cost of u = 0.
Hessian(self, S) ==
    Tuple([i \in 1..(self.N * self.m) |-> Tuple([j \in 1..(self.N * self.m) |->
       RatAdd(SumTo(Tuple([k \in 1..(self.N + 1) |->
                       Dot(Column(S[k], i), MatVec(Weight(self, k - 1), Column(S[k], j)))]),
                    self.N + 1),
              IF (i - 1) \div self.m = (j - 1) \div self.m
              THEN self.R[((i - 1) % self.m) + 1][((j - 1) % self.m) + 1]
              ELSE Whole(0))])])

Gradient(self, S, F) ==
    Tuple([j \in 1..(self.N * self.m) |->
       RatSub(SumTo(Tuple([k \in 1..(self.N + 1) |->
                       Dot(Column(S[k], j),
                           MatVec(Weight(self, k - 1), VecSub(F[k], self.x_ref)))]),
                    self.N + 1),
              Dot(self.R[((j - 1) % self.m) + 1], self.u_ref))])

\* The inequality constraints as rows a.u <= b.
StateLowerRows(self, S, F) ==
    IF HasStateLower(self)
    THEN {[a |-> VecNeg(S[k + 1][i]), b |-> RatSub(F[k + 1][i], self.x_min[i])] :
            k \in StateBoundRows(self), i \in 1..self.n}
    ELSE {}

StateUpperRows(self, S, F) ==
    IF HasStateUpper(self)
    THEN {[a |-> S[k + 1][i], b |-> RatSub(self.x_max[i], F[k + 1][i])] :
            k \in StateBoundRows(self), i \in 1..self.n}
    ELSE {}

InputLowerRows(self) ==
    IF HasInputLower(self)
    THEN {[a |-> VecNeg(Unit(self.N * self.m, k * self.m + i)), b |-> RatNeg(self.u_min[i])] :
            k \in InputBoundRows(self), i \in 1..self.m}
    ELSE {}

InputUpperRows(self) ==
    IF HasInputUpper(self)
    THEN {[a |-> Unit(self.N * self.m, k * self.m + i), b |-> self.u_max[i]] :
            k \in InputBoundRows(self), i \in 1..self.m}
    ELSE {}

Rows(self, S, F) ==
    StateLowerRows(self, S, F) \cup StateUpperRows(self, S, F)
      \cup InputLowerRows(self) \cup InputUpperRows(self)

\* The solution of H u = g for a positive definite H, by elimination of the
\* last unknown.
RECURSIVE LinSolve(_, _)
LinSolve(H, g) ==
    LET d == Len(g)
    IN  IF d = 0 THEN <<>>
        ELSE LET p == H[d][d]
                 H2 == Tuple([i \in 1..(d - 1) |-> Tuple([j \in 1..(d - 1) |->
                          RatSub(H[i][j], RatDiv(RatMul(H[i][d], H[d][j]), p))])])
                 g2 == Tuple([i \in 1..(d - 1) |->
                          RatSub(g[i], RatDiv(RatMul(H[i][d], g[d]), p))])
                 u == LinSolve(H2, g2)
             IN  Append(u, RatDiv(RatSub(g[d], Dot(SubSeq(H[d], 1, d - 1), u)), p))

ReducedCost(H, f, u) == RatAdd(Dot(u, MatVec(H, u)), RatMul(Whole(2), Dot(f, u)))

NoPoint == [ok |-> FALSE, u |-> <<>>]

IsZero(a) == \A i \in 1..Len(a) : a[i][1] = 0

LastNonZero(a) == CHOOSE p \in 1..Len(a) : a[p][1] # 0 /\ \A q \in (p + 1)..Len(a) : a[q][1] = 0

\* The minimiser of u'Hu + 2f'u over the u with a.u <= b for every row, H
\* positive definite.  When the free minimiser violates rows, the minimiser
\* lies on the boundary of one of them: the problem is solved on each such
\* boundary, where one unknown is a function of the others, and the cheapest
\* of the points found is the minimiser.
RECURSIVE Minimise(_, _, _)
RECURSIVE OnFace(_, _, _, _)
Minimise(H, f, rows) ==
    IF \E r \in rows : IsZero(r.a) /\ r.b[1] < 0 THEN NoPoint
    ELSE IF Len(f) = 0 THEN [ok |-> TRUE, u |-> <<>>]
    ELSE LET u0 == LinSolve(H, VecNeg(f))
             broken == {r \in rows : RatLess(r.b, Dot(r.a, u0))}
             found == {c \in {OnFace(H, f, rows, r) : r \in broken} : c.ok}
         IN  IF broken = {} THEN [ok |-> TRUE, u |-> u0]
             ELSE IF found = {} THEN NoPoint
             ELSE CHOOSE c \in found :
                    \A e \in found : RatLeq(ReducedCost(H, f, c.u), ReducedCost(H, f, e.u))

OnFace(H, f, rows, r) ==
    LET d == Len(f)
        p == LastNonZero(r.a)
        keep == Tuple([c \in 1..(d - 1) |-> IF c < p THEN c ELSE c + 1])
        \* u = T v + t
        T == Tuple([i \in 1..d |-> Tuple([c \in 1..(d - 1) |->
                IF i = p THEN RatNeg(RatDiv(r.a[keep[c]], r.a[p]))
                ELSE IF keep[c] = i THEN Whole(1) ELSE Whole(0)])])
        t == Tuple([i \in 1..d |-> IF i = p THEN RatDiv(r.b, r.a[p]) ELSE Whole(0)])
        Tt == Tuple([c \in 1..(d - 1) |-> Tuple([i \in 1..d |-> T[i][c]])])
        H2 == Tuple([c \in 1..(d - 1) |-> Tuple([e \in 1..(d - 1) |->
                 Dot(Tt[c], MatVec(H, Tt[e]))])])
        f2 == MatVec(Tt, VecAdd(MatVec(H, t), f))
        rows2 == {[a |-> MatVec(Tt, s.a), b |-> RatSub(s.b, Dot(s.a, t))] : s \in rows \ {r}}
        sub == Minimise(H2, f2, rows2)
    IN  IF sub.ok THEN [ok |-> TRUE, u |-> VecAdd(Tuple([i \in 1..d |-> Dot(T[i], sub.u)]), t)]
        ELSE NoPoint

\* The rows with `slack` added to every right-hand side
Slackened(rows, slack) == {[a |-> r.a, b |-> RatAdd(r.b, slack)] : r \in rows}

\* The assignment that minimises the cost over the constraints, the
\* inequalities loosened by `slack`, if there is one.
Minimiser(self, x_current, slack) ==
    LET S == Sens(self)
        F == Free(self, x_current)
        sol == Minimise(Hessian(self, S), Gradient(self, S, F),
                        Slackened(Rows(self, S, F), slack))
    IN  IF sol.ok
        THEN [ok |-> TRUE, U |-> Unflat(self, sol.u),
              X |-> Rollout(self, InitialRow(self, x_current), Unflat(self, sol.u))]
        ELSE [ok |-> FALSE, U |-> None, X |-> None]

\* A residual the solver's termination tolerance admits.
Tol == Rat(1, 1000)

\* The values the solver may assign when (X, U) is the minimiser: (X, U)
\* itself, and (X, U) with one equality met to Tol only: the initial
\* condition (in row 0 of X), or the last dynamics step (in its input).
WithinTolerance(self, X, U) ==
    { [X |-> X, U |-> U],
      [X |-> [X EXCEPT ![1][1] = RatAdd(X[1][1], Tol)], U |-> U],
      [X |-> X, U |-> [U EXCEPT ![self.N][self.m] = RatAdd(U[self.N][self.m], Tol)]] }

\* problem.solve(solver=cp.OSQP) ending with a verdict on the problem:
\* "optimal" with the minimiser when the constraints can be met;
\* "infeasible" with nothing assigned when they cannot; and when they can be
\* met to Tol but not exactly, either "infeasible" or "optimal" with the
\* minimiser over the constraints loosened by Tol.
SolverReports(self, x_current) ==
    UNION { IF sol.ok
            THEN {[status |-> "optimal", X |-> v.X, U |-> v.U] :
                    v \in WithinTolerance(self, sol.X, sol.U)}
            ELSE {[status |-> "infeasible", X |-> None, U |-> None]}
                   \cup {[status |-> "optimal", X |-> near.X, U |-> near.U] :
                           near \in {v \in {Minimiser(self, x_current, Tol)} : v.ok}} :
            sol \in {Minimiser(self, x_current, Whole(0))} }

\* Statuses that leave X.value and U.value None
NoAssignmentStatuses ==
    {"unbounded", "infeasible_inaccurate", "unbounded_inaccurate"}

\* The values under "optimal_inaccurate": the minimiser with a residual of
\* Tol in the initial condition and in the last dynamics step at once.
Inaccurate(self, X, U) ==
    [X |-> [X EXCEPT ![1][1] = RatAdd(X[1][1], Tol)],
     U |-> [U EXCEPT ![self.N][self.m] = RatAdd(U[self.N][self.m], Tol)]]

\* The other ends of problem.solve: values under "optimal_inaccurate", a
\* status with nothing assigned, and cp.SolverError raised.
OtherReports(self, x_current) ==
    UNION { IF sol.ok
            THEN {[status |-> "optimal_inaccurate", X |-> v.X, U |-> v.U] :
                    v \in {Inaccurate(self, sol.X, sol.U)}}
            ELSE {} :
            sol \in {Minimiser(self, x_current, Whole(0))} }
      \cup {[status |-> s, X |-> None, U |-> None] : s \in NoAssignmentStatuses}
      \cup {[status |-> "solver_error", X |-> None, U |-> None]}

\* mutant: only "infeasible" is tested
solve_mpc_infeasible_only(self, x_current, report) ==
    IF report.status = "solver_error"
    THEN [raised |-> TRUE, status |-> report.status, x_current |-> x_current,
          u_opt |-> None, X_opt |-> None, U_opt |-> None]
    ELSE IF report.status = "infeasible"
    THEN [raised |-> FALSE, status |-> report.status, x_current |-> x_current,
          u_opt |-> Zeros(self.m), X_opt |-> None, U_opt |-> None]
    ELSE IF report.U = None
    THEN [raised |-> TRUE, status |-> report.status, x_current |-> x_current,
          u_opt |-> None, X_opt |-> None, U_opt |-> None]
    ELSE [raised |-> FALSE, status |-> report.status, x_current |-> x_current,
          u_opt |-> report.U[1], X_opt |-> report.X, U_opt |-> report.U]

\* solve_mpc, problem.solve ending with `report`.
\* raised: problem.solve raised cp.SolverError, or U.value[0] was evaluated
\* with U.value = None (TypeError).
solve_mpc(self, x_current, report) ==
    IF report.status = "solver_error"
    THEN [raised |-> TRUE, status |-> report.status, x_current |-> x_current,
          u_opt |-> None, X_opt |-> None, U_opt |-> None]
    ELSE IF report.status \in {"infeasible", "unbounded"}
    THEN [raised |-> FALSE, status |-> report.status, x_current |-> x_current,
          u_opt |-> Zeros(self.m), X_opt |-> None, U_opt |-> None]
    ELSE IF report.U = None
    THEN [raised |-> TRUE, status |-> report.status, x_current |-> x_current,
          u_opt |-> None, X_opt |-> None, U_opt |-> None]
    ELSE [raised |-> FALSE, status |-> report.status, x_current |-> x_current,
          u_opt |-> report.U[1], X_opt |-> report.X, U_opt |-> report.U]

\* ------------------------------------------------------ LMPC.simulate
\* x_ref handling, the three arrays and the copy of x0, before the loop
simulate_begin(self, x0, N_sim, dt) ==
    [x0 |-> x0, N_sim |-> N_sim, dt |-> dt, k |-> 0, x |-> x0,
     X_hist |-> [ZerosMat(N_sim + 1, self.n) EXCEPT ![1] = x0],
     U_hist |-> ZerosMat(N_sim, self.m),
     t_hist |-> linspace(Whole(0), RatMul(Whole(N_sim), dt), N_sim + 1)]

\* mutant: range(N_sim + 1)
LoopRangeInclusive(N_sim) == 0..N_sim

\* for k in range(N_sim)
LoopRange(N_sim) == 0..(N_sim - 1)

\* the end of the loop body: X_hist[k + 1] = x, U_hist[k] = u_opt, next k
Advance(s, x, u_opt) ==
    [s EXCEPT !.x = x,
              !.X_hist[s.k + 2] = x,
              !.U_hist[s.k + 1] = u_opt,
              !.k = s.k + 1]

\* self.A @ x + self.B @ u_opt
Predict(self, x, u) == VecAdd(MatVec(self.A, x), MatVec(self.B, u))

\* mutant: the state is advanced without the input term
simulate_step_no_input(self, s, u_opt) == Advance(s, MatVec(self.A, s.x), u_opt)

\* the loop body after solve_mpc has returned u_opt
simulate_step(self, s, u_opt) == Advance(s, Predict(self, s.x, u_opt), u_opt)

(***************************************************************************)
(* Part II models the pendulum model (src/src/pendulum.py) and the shipped *)
(* run (src/src/main.py with src/src/config.py) in decimal floating point: *)
(* a number is m * 10^e with an eight-digit mantissa m, results truncated  *)
(* toward zero.                                                            *)
(***************************************************************************)
Half == 100 * 100

Lim == Half * Half

\* i / 10^d, rounded toward zero
Shift(i, d) == Sgn(i) * (Abs(i) \div (10 ^ d))

RECURSIVE Norm(_, _)
Norm(m, e) ==
    IF m = 0 THEN [m |-> 0, e |-> 0]
    ELSE IF Abs(m) >= Lim THEN Norm(Shift(m, 1), e + 1)
    ELSE IF Abs(m) * 10 < Lim THEN Norm(m * 10, e - 1)
    ELSE [m |-> m, e |-> e]

Dec(m, e) == Norm(m, e)

FZero == Dec(0, 0)

FOne == Dec(1, 0)

FNeg(a) == [m |-> -a.m, e |-> a.e]

FAddOrdered(hi, lo) ==
    LET d == hi.e - lo.e
    IN  IF d = 0 THEN Norm(hi.m + lo.m, hi.e)
        ELSE IF d > 9 THEN hi
        ELSE Norm(hi.m * 10 + Shift(lo.m, d - 1), hi.e - 1)

FAdd(a, b) ==
    IF a.m = 0 THEN b
    ELSE IF b.m = 0 THEN a
    ELSE IF a.e >= b.e THEN FAddOrdered(a, b) ELSE FAddOrdered(b, a)

FSub(a, b) == FAdd(a, FNeg(b))

FMul(a, b) ==
    IF a.m = 0 \/ b.m = 0 THEN FZero
    ELSE LET am == Abs(a.m)
             bm == Abs(b.m)
             hi == (am \div Half) * (bm \div Half)
             mid == (am \div Half) * (bm % Half) + (am % Half) * (bm \div Half)
             lo == (am % Half) * (bm % Half)
             t == mid + (lo \div Half)
             q == hi + (t \div Half)
             sg == Sgn(a.m) * Sgn(b.m)
         IN  IF q * 10 < Lim
             THEN Norm(sg * (q * 10 + ((t % Half) \div 1000)), a.e + b.e + 7)
             ELSE Norm(sg * q, a.e + b.e + 8)

\* long division: the quotient digit by digit
RECURSIVE DivDigits(_, _, _, _)
DivDigits(r, b, q, i) ==
    IF i = 0 THEN q
    ELSE DivDigits((r * 10) % b, b, q * 10 + ((r * 10) \div b), i - 1)

FDiv(a, b) ==
    IF a.m = 0 THEN FZero
    ELSE LET am == Abs(a.m)
             bm == Abs(b.m)
             q == DivDigits(am % bm, bm, am \div bm, 8)
         IN  Norm(Sgn(a.m) * Sgn(b.m) * q, a.e - b.e - 8)

FLess(a, b) == FSub(a, b).m < 0

FLeq(a, b) == FSub(a, b).m <= 0

RECURSIVE FSumTo(_, _)
FSumTo(f, k) == IF k = 0 THEN FZero ELSE FAdd(FSumTo(f, k - 1), f[k])

FDot(u, v) == FSumTo([i \in 1..Len(u) |-> FMul(u[i], v[i])], Len(u))

FMatVec(M, v) == [i \in 1..Len(M) |-> FDot(M[i], v)]

FMatMul(M, P) ==
    [i \in 1..Len(M) |-> [j \in 1..Len(P[1]) |->
        FSumTo([k \in 1..Len(P) |-> FMul(M[i][k], P[k][j])], Len(P))]]

FVecAdd(u, v) == [i \in 1..Len(u) |-> FAdd(u[i], v[i])]

FVecSub(u, v) == [i \in 1..Len(u) |-> FSub(u[i], v[i])]

FVecNeg(u) == [i \in 1..Len(u) |-> FNeg(u[i])]

FZeros(k) == [i \in 1..k |-> FZero]

FZerosMat(r, c) == [i \in 1..r |-> FZeros(c)]

FEye(k) == [i \in 1..k |-> [j \in 1..k |-> IF i = j THEN FOne ELSE FZero]]

FScale(M, c) == [i \in 1..Len(M) |-> [j \in 1..Len(M[i]) |-> FMul(M[i][j], c)]]

FMatAdd(M, P) == [i \in 1..Len(M) |-> FVecAdd(M[i], P[i])]

FDiag(d) == [i \in 1..Len(d) |-> [j \in 1..Len(d) |-> IF i = j THEN d[i] ELSE FZero]]

\* numpy.linalg.inv of a 3 x 3 matrix: the adjugate over the determinant
Minor(M, i, j) ==
    LET r == <<1, 2, 3>>  c == <<1, 2, 3>>
        rs == SelectSeq(r, LAMBDA x : x # i)
        cs == SelectSeq(c, LAMBDA x : x # j)
    IN  FSub(FMul(M[rs[1]][cs[1]], M[rs[2]][cs[2]]),
             FMul(M[rs[1]][cs[2]], M[rs[2]][cs[1]]))

Cofactor(M, i, j) == IF (i + j) % 2 = 0 THEN Minor(M, i, j) ELSE FNeg(Minor(M, i, j))

Det3(M) ==
    FAdd(FAdd(FMul(M[1][1], Cofactor(M, 1, 1)), FMul(M[1][2], Cofactor(M, 1, 2))),
         FMul(M[1][3], Cofactor(M, 1, 3)))

Inv3(M) ==
    [i \in 1..3 |-> [j \in 1..3 |-> FDiv(Cofactor(M, j, i), Det3(M))]]

\* ----------------------------------------- DoubleInvertedPendulumCart
\* _compute_state_space_matrices: A and B from M0_inv, dh_dtheta and F
\* (indices are the code's plus one)
compute_state_space_matrices(M0_inv, dh_dtheta, F) ==
    LET A21 == FScale(FMatMul(M0_inv, dh_dtheta), FNeg(FOne))
        B21 == FMatMul(M0_inv, F)
        A0 == [FZerosMat(6, 6) EXCEPT ![1][4] = FOne, ![2][5] = FOne, ![3][6] = FOne]
    IN  [A |-> [i \in 1..6 |-> [j \in 1..6 |->
                  IF i \in 4..6 /\ j \in 1..3 THEN A21[i - 3][j] ELSE A0[i][j]]],
         B |-> [i \in 1..6 |-> <<IF i \in 4..6 THEN B21[i - 3][1] ELSE FZero>>]]

\* __init__ and _compute_linearized_matrices
DoubleInvertedPendulumCart(m0, m1, m2, L1, L2, g) ==
    LET l1 == FDiv(L1, Dec(2, 0))
        l2 == FDiv(L2, Dec(2, 0))
        I1 == FMul(FMul(FDiv(FOne, Dec(12, 0)), m1), FMul(L1, L1))
        I2 == FMul(FMul(FDiv(FOne, Dec(12, 0)), m2), FMul(L2, L2))
        M11 == FAdd(FAdd(m0, m1), m2)
        M12 == FAdd(FMul(m1, l1), FMul(m2, L1))
        M13 == FMul(m2, l2)
        M22 == FAdd(FAdd(FMul(m1, FMul(l1, l1)), FMul(m2, FMul(L1, L1))), I1)
        M23 == FMul(FMul(m2, L1), l2)
        M33 == FAdd(FMul(m2, FMul(l2, l2)), I2)
        M0 == << <<M11, M12, M13>>, <<M12, M22, M23>>, <<M13, M23, M33>> >>
        M0_inv == Inv3(M0)
        dh_dtheta == << <<FZero, FZero, FZero>>,
                        <<FZero, FMul(FAdd(FMul(m1, l1), FMul(m2, L1)), g), FZero>>,
                        <<FZero, FZero, FMul(FMul(m2, l2), g)>> >>
        F == << <<FOne>>, <<FZero>>, <<FZero>> >>
        ss == compute_state_space_matrices(M0_inv, dh_dtheta, F)
    IN  [m0 |-> m0, m1 |-> m1, m2 |-> m2, L1 |-> L1, L2 |-> L2, g |-> g,
         M0 |-> M0, M0_inv |-> M0_inv, A |-> ss.A, B |-> ss.B]

\* g: float = 9.81
DefaultG == Dec(981, -2)

\* the columns plot_results and animate_pendulum give the state vector
StateColumns == <<"x", "x_dot", "theta1", "theta2", "theta1_dot", "theta2_dot">>

\* ------------------------------------------------------ config.py
config ==
    [m0 |-> Dec(15, -1), m1 |-> Dec(5, -1), m2 |-> Dec(75, -2),
     L1 |-> Dec(5, -1), L2 |-> Dec(75, -2),
     x0 |-> <<FZero, Dec(6, -1), Dec(-6, -1), FZero, FZero, FZero>>,
     N |-> 20,
     dt |-> Dec(5, -2),
     Q |-> FDiag(<<Dec(10, 0), Dec(100, 0), Dec(100, 0), Dec(1, 0), Dec(10, 0), Dec(10, 0)>>),
     R |-> << <<Dec(1, -1)>> >>,
     Qn |-> FScale(FDiag(<<Dec(10, 0), Dec(100, 0), Dec(100, 0),
                           Dec(1, 0), Dec(10, 0), Dec(10, 0)>>), Dec(2, 0)),
     x_max |-> <<Dec(2, 0), Dec(5, -1), Dec(5, -1), Dec(3, 0), Dec(5, 0), Dec(5, 0)>>,
     x_min |-> FVecNeg(<<Dec(2, 0), Dec(5, -1), Dec(5, -1), Dec(3, 0), Dec(5, 0), Dec(5, 0)>>),
     u_max |-> <<Dec(50, 0)>>,
     u_min |-> FVecNeg(<<Dec(50, 0)>>),
     x_ref |-> FZeros(6),
     N_sim |-> 400]

\* ------------------------------------------------------ main.py
\* A_d = np.eye(A.shape[0]) + A * config.dt
Discretize_A(A, dt) == FMatAdd(FEye(Len(A)), FScale(A, dt))

\* B_d = B * config.dt
Discretize_B(B, dt) == FScale(B, dt)

\* ------------------------------------ LMPC on floating-point operands
\* X[0] == x_current with X[0] >= x_min, X[0] <= x_max: the constraints on
\* row 0 alone already exclude every assignment
RowZeroExcluded(self, x_current) ==
    \/ self.x_min # None /\ \E i \in 1..Len(x_current) : FLess(x_current[i], self.x_min[i])
    \/ self.x_max # None /\ \E i \in 1..Len(x_current) : FLess(self.x_max[i], x_current[i])

\* np.zeros(self.m) and the other rational vectors, as floats
AsFloats(v) == [i \in 1..Len(v) |-> FDiv(Dec(v[i][1], 0), Dec(v[i][2], 0))]

FPredict(self, x, u) == FVecAdd(FMatVec(self.A, x), FMatVec(self.B, u))

\* numpy.linspace(start, stop, num) on floats: arange(num) * step + start
Flinspace(start, stop, num) ==
    LET div == num - 1
        step == IF div > 0 THEN FDiv(FSub(stop, start), Dec(div, 0)) ELSE FZero
    IN  [i \in 1..num |-> IF i = num /\ div > 0 THEN stop
                          ELSE FAdd(FMul(Dec(i - 1, 0), step), start)]

simulate_beginF(self, x0, N_sim, dt) ==
    [x0 |-> x0, N_sim |-> N_sim, dt |-> dt, k |-> 0, x |-> x0,
     X_hist |-> [FZerosMat(N_sim + 1, self.n) EXCEPT ![1] = x0],
     U_hist |-> FZerosMat(N_sim, self.m),
     t_hist |-> Flinspace(FZero, FMul(Dec(N_sim, 0), dt), N_sim + 1)]

\* ------------------------------------------------------ the state machine
VARIABLES
    ctrl,     \* the LMPC instance
    pc,       \* "idle", "loop" (inside simulate's for loop), "returned", "fault"
    sim,      \* simulate's local variables while pc = "loop"
    log,      \* the solve_mpc calls of the operation in progress, in order
    result,   \* what the most recent operation returned
    system    \* the DoubleInvertedPendulumCart instance (Part II)

vars == <<ctrl, pc, sim, log, result, system>>

NoSim == [k |-> 0]

\* Discrete systems with n = 2 states and m = 1 input: a double integrator
\* (the shape of I + A*dt for one position/velocity pair) built without a
\* terminal weight, and an unstable system built with one.
SystemChoices ==
    { [A |-> RatMat(<<<<1, 1>>, <<0, 1>>>>), Qn |-> None],
      [A |-> RatMat(<<<<1, 1>>, <<1, 1>>>>), Qn |-> Diag(<<4, 2>>)] }

BChoice == RatMat(<<<<0>>, <<1>>>>)

QChoice == Diag(<<2, 1>>)

RChoice == Diag(<<1>>)

\* Box constraints: absent, partial, full, and contradictory ones (the last
\* by no more than the solver's tolerance).
BoundChoices ==
    { [x_min |-> None, x_max |-> None, u_min |-> None, u_max |-> None],
      [x_min |-> Rats(<<-2, -2>>), x_max |-> Rats(<<2, 2>>),
       u_min |-> Rats(<<-1>>), u_max |-> Rats(<<1>>)],
      [x_min |-> None, x_max |-> Rats(<<2, 2>>), u_min |-> Rats(<<0>>), u_max |-> None],
      [x_min |-> Rats(<<-2, -2>>), x_max |-> None, u_min |-> None, u_max |-> Rats(<<0>>)],
      [x_min |-> Rats(<<-2, 1>>), x_max |-> Rats(<<2, -1>>),
       u_min |-> Rats(<<-1>>), u_max |-> Rats(<<1>>)],
      [x_min |-> Rats(<<-2, -2>>), x_max |-> Rats(<<2, 2>>),
       u_min |-> Rats(<<1>>), u_max |-> Rats(<<-1>>)],
      [x_min |-> None, x_max |-> None, u_min |-> <<Tol>>, u_max |-> Rats(<<0>>)] }

\* Current states, inside the boxes of BoundChoices and outside them
XChoices == { Rats(<<0, 0>>), Rats(<<1, -1>>), Rats(<<3, -1>>), Rats(<<3, -3>>) }

\* solve_mpc's x_current argument: also a state outside the boxes by Tol
SolveChoices == XChoices \cup { <<RatAdd(Whole(2), Tol), Whole(0)>> }

RefChoices == { Rats(<<0, 0>>), Rats(<<1, 0>>) }

\* simulate's x_ref argument: absent, or a reference
SimRefChoices == { None, Rats(<<1, 0>>) }

\* simulate's dt argument: the default 0.1, and a negative one
DtChoices == { Rat(1, 10), Whole(-1) }

Init ==
    /\ \E sys \in SystemChoices, N \in 1..MaxN, b \in BoundChoices :
         ctrl = LMPC(sys.A, BChoice, N, QChoice, RChoice, sys.Qn,
                     b.x_min, b.x_max, b.u_min, b.u_max)
    /\ pc = "idle"
    /\ sim = NoSim
    /\ log = <<>>
    /\ result = [kind |-> "constructed"]
    /\ system = None

SetReference(r) ==
    /\ pc = "idle"
    /\ ctrl' = set_reference(ctrl, r)
    /\ log' = <<>>
    /\ result' = [kind |-> "set_reference", x_ref |-> r]
    /\ UNCHANGED <<pc, sim, system>>

\* One call of solve_mpc from outside simulate, the solver reporting `rep`.
SolveMpcOn(x, rep) ==
    LET r == solve_mpc(ctrl, x, rep)
    IN  /\ pc = "idle"
        /\ log' = <<r>>
        /\ pc' = IF r.raised THEN "fault" ELSE "returned"
        /\ result' = IF r.raised THEN [kind |-> "raised"]
                     ELSE [kind |-> "solve_mpc", ret |-> r]
        /\ UNCHANGED <<ctrl, sim, system>>

SolveMpc(x) ==
    /\ pc = "idle"
    /\ \E rep \in SolverReports(ctrl, x) : SolveMpcOn(x, rep)

SolveMpcOther(x) ==
    /\ pc = "idle"
    /\ \E rep \in OtherReports(ctrl, x) : SolveMpcOn(x, rep)

SimulateStart(x0, N_sim, x_ref, dt) ==
    /\ pc = "idle"
    /\ ctrl' = IF x_ref # None THEN set_reference(ctrl, x_ref) ELSE ctrl
    /\ sim' = simulate_begin(ctrl, x0, N_sim, dt)
    /\ pc' = "loop"
    /\ log' = <<>>
    /\ result' = [kind |-> "running"]
    /\ UNCHANGED system

\* One iteration of the loop, the solver reporting `rep`.
SimulateStepOn(rep) ==
    LET r == solve_mpc(ctrl, sim.x, rep)
    IN  /\ pc = "loop"
        /\ sim.k \in LoopRange(sim.N_sim)
        /\ log' = Append(log, r)
        /\ IF r.raised
           THEN pc' = "fault" /\ result' = [kind |-> "raised"] /\ UNCHANGED sim
           ELSE pc' = "loop" /\ sim' = simulate_step(ctrl, sim, r.u_opt)
                /\ UNCHANGED result
        /\ UNCHANGED <<ctrl, system>>

SimulateStep ==
    /\ pc = "loop"
    /\ sim.k \in LoopRange(sim.N_sim)
    /\ \E rep \in SolverReports(ctrl, sim.x) : SimulateStepOn(rep)

SimulateStepOther ==
    /\ pc = "loop"
    /\ sim.k \in LoopRange(sim.N_sim)
    /\ \E rep \in OtherReports(ctrl, sim.x) : SimulateStepOn(rep)

SimulateReturn ==
    /\ pc = "loop"
    /\ sim.k \notin LoopRange(sim.N_sim)
    /\ pc' = "returned"
    /\ result' = [kind |-> "simulate", x0 |-> sim.x0, N_sim |-> sim.N_sim,
                  dt |-> sim.dt, X_hist |-> sim.X_hist, U_hist |-> sim.U_hist,
                  t_hist |-> sim.t_hist]
    /\ sim' = NoSim
    /\ UNCHANGED <<ctrl, log, system>>

\* The caller goes on after a call has returned; the returned value and the
\* record of the call go out of scope.
Continue ==
    /\ pc = "returned"
    /\ pc' = "idle"
    /\ log' = <<>>
    /\ result' = [kind |-> "none"]
    /\ UNCHANGED <<ctrl, sim, system>>

Next ==
    \/ \E r \in RefChoices : SetReference(r)
    \/ \E x \in SolveChoices : SolveMpc(x)
    \/ \E x0 \in XChoices, N_sim \in 0..MaxNSim, x_ref \in SimRefChoices,
          dt \in DtChoices : SimulateStart(x0, N_sim, x_ref, dt)
    \/ SimulateStep
    \/ SimulateReturn
    \/ Continue

\* Every solve ends with a verdict: "optimal" or "infeasible".
Spec == Init /\ [][Next]_vars

NextAnyStatus ==
    \/ Next
    \/ \E x \in SolveChoices : SolveMpcOther(x)
    \/ SimulateStepOther

\* A solve may also end in any other way.
SpecAnyStatus == Init /\ [][NextAnyStatus]_vars

\* ------------------------------------------------------ the shipped run
\* Positive physical parameters (m0, m1, m2, L1, L2): the shipped ones and
\* others.
ParamChoices ==
    { <<config.m0, config.m1, config.m2, config.L1, config.L2>>,
      <<Dec(1, 0), Dec(1, 0), Dec(1, 0), Dec(1, 0), Dec(1, 0)>>,
      <<Dec(2, 0), Dec(3, -1), Dec(1, -1), Dec(4, -1), Dec(12, -1)>>,
      <<Dec(1, -1), Dec(5, 0), Dec(25, -1), Dec(2, 0), Dec(5, -1)>> }

ConfigParams == <<config.m0, config.m1, config.m2, config.L1, config.L2>>

InitPlant ==
    /\ pc = "start"
    /\ system = None
    /\ ctrl = None
    /\ sim = NoSim
    /\ log = <<>>
    /\ result = [kind |-> "none"]

\* DoubleInvertedPendulumCart(m0, m1, m2, L1, L2), g left at its default
NewPendulum(p) ==
    /\ pc = "start"
    /\ system' = DoubleInvertedPendulumCart(p[1], p[2], p[3], p[4], p[5], DefaultG)
    /\ pc' = "system"
    /\ UNCHANGED <<ctrl, sim, log, result>>

\* main.py: get_linearized_system, the discretization, LMPC(...)
MainController ==
    /\ pc = "system"
    /\ <<system.m0, system.m1, system.m2, system.L1, system.L2>> = ConfigParams
    /\ ctrl' = LMPC(Discretize_A(system.A, config.dt), Discretize_B(system.B, config.dt),
                    config.N, config.Q, config.R, config.Qn,
                    config.x_min, config.x_max, config.u_min, config.u_max)
    /\ pc' = "controller"
    /\ UNCHANGED <<system, sim, log, result>>

\* main.py: controller.simulate(config.x0, config.N_sim, x_ref=config.x_ref, dt=config.dt)
MainSimulateStart ==
    /\ pc = "controller"
    /\ ctrl' = IF config.x_ref # None THEN set_reference(ctrl, config.x_ref) ELSE ctrl
    /\ sim' = simulate_beginF(ctrl, config.x0, config.N_sim, config.dt)
    /\ pc' = "loop"
    /\ log' = <<>>
    /\ result' = [kind |-> "running"]
    /\ UNCHANGED system

\* One iteration of the loop on a state the bounds on X[0] exclude: the QP
\* has no feasible point and the solver reports "infeasible".
MainSimulateStep ==
    /\ pc = "loop"
    /\ sim.k \in LoopRange(sim.N_sim)
    /\ RowZeroExcluded(ctrl, sim.x)
    /\ LET r == solve_mpc(ctrl, sim.x, [status |-> "infeasible", X |-> None, U |-> None])
           u_opt == AsFloats(r.u_opt)
       IN  /\ sim' = Advance(sim, FPredict(ctrl, sim.x, u_opt), u_opt)
           /\ log' = Append(log, r.status)
    /\ UNCHANGED <<ctrl, pc, result, system>>

MainSimulateReturn ==
    /\ pc = "loop"
    /\ sim.k \notin LoopRange(sim.N_sim)
    /\ pc' = "returned"
    /\ result' = [kind |-> "simulate", x0 |-> sim.x0, N_sim |-> sim.N_sim,
                  dt |-> sim.dt, X_hist |-> sim.X_hist, U_hist |-> sim.U_hist,
                  t_hist |-> sim.t_hist]
    /\ sim' = NoSim
    /\ UNCHANGED <<ctrl, log, system>>

NextPlant ==
    \/ \E p \in ParamChoices : NewPendulum(p)
    \/ MainController
    \/ MainSimulateStart
    \/ MainSimulateStep
    \/ MainSimulateReturn

SpecPlant == InitPlant /\ [][NextPlant]_vars

\* ================================================================ claims
\* The solve_mpc calls on record, and simulate's arrays while it runs or
\* once it has returned.
Calls == {log[i] : i \in 1..Len(log)}

Degraded(self, r) ==
    /\ ~r.raised
    /\ r.u_opt = Zeros(self.m)
    /\ r.X_opt = None
    /\ r.U_opt = None

InSimulate == pc = "loop" \/ result.kind = "simulate"

Hist == IF pc = "loop" THEN sim ELSE result

StepsDone == IF pc = "loop" THEN sim.k ELSE result.N_sim

\* The reported minimiser against the problem solve_mpc states, on current
\* states with whole-number entries: when it meets the constraints, no
\* assignment that meets them and differs from it in one input costs less;
\* when it meets them to Tol only, no assignment that differs from it in one
\* input meets them.
Nudged(self, U) ==
    {[U EXCEPT ![k][i] = RatAdd(U[k][i], d)] :
       k \in 1..self.N, i \in 1..self.m, d \in {Rat(1, 4), Rat(-1, 4), Whole(1), Whole(-1)}}

MinimiserSound ==
    \A r \in Calls :
      (r.status = "optimal" /\ r.X_opt[1] = r.x_current
         /\ (\A i \in 1..ctrl.n : r.x_current[i][2] = 1)
         /\ r.X_opt = Rollout(ctrl, r.x_current, r.U_opt)) =>
        \A V \in Nudged(ctrl, r.U_opt) :
          Constraints(ctrl, r.x_current, Rollout(ctrl, r.x_current, V), V) =>
            /\ Constraints(ctrl, r.x_current, r.X_opt, r.U_opt)
            /\ RatLeq(Cost(ctrl, r.X_opt, r.U_opt),
                      Cost(ctrl, Rollout(ctrl, r.x_current, V), V))

\* C1: whenever the solver reports "infeasible" or "unbounded", solve_mpc
\* returns the zero vector of dimension m with null X and U trajectories;
\* nothing else is tried.
C1_ZeroInputOnInfeasible ==
    /\ \A r \in Calls :
         r.status \in {"infeasible", "unbounded"} => Degraded(ctrl, r)
    /\ result.kind = "solve_mpc" => Len(log) = 1 /\ result.ret = log[1]

C1_Witness ==
    /\ pc = "loop"
    /\ \E i, j \in 1..Len(log) :
         /\ log[i].status = "infeasible"
         /\ log[j].status = "unbounded"

\* C2: whatever the solver reports, an optimal assignment or any status
\* with no assignment, solve_mpc returns a triple and simulate goes on; no
\* exception leaves solve_mpc or simulate.
C2_NoFaultEscapes ==
    /\ pc # "fault"
    /\ \A r \in Calls : ~r.raised

\* C3: simulate ends after exactly N_sim solve_mpc calls and returns N_sim+1
\* state rows (row 0 is x0), N_sim input rows and the N_sim+1 times k*dt,
\* whether or not solves were infeasible.
C3_SimulateShapes ==
    /\ pc # "fault"
    /\ pc = "loop" => sim.k <= sim.N_sim /\ Len(log) = sim.k
    /\ result.kind = "simulate" =>
         /\ Len(log) = result.N_sim
         /\ DOMAIN result.X_hist = 1..(result.N_sim + 1)
         /\ \A i \in DOMAIN result.X_hist : Len(result.X_hist[i]) = ctrl.n
         /\ result.X_hist[1] = result.x0
         /\ DOMAIN result.U_hist = 1..result.N_sim
         /\ \A i \in DOMAIN result.U_hist : Len(result.U_hist[i]) = ctrl.m
         /\ DOMAIN result.t_hist = 1..(result.N_sim + 1)
         /\ \A k \in 0..result.N_sim : result.t_hist[k + 1] = RatMul(Whole(k), result.dt)

C3_Witness ==
    /\ result.kind = "simulate"
    /\ result.N_sim >= 2
    /\ \E i, j \in 1..Len(log) :
         /\ log[i].status = "infeasible"
         /\ log[j].status = "optimal"

\* C4: in simulate, U_hist[k] is the first input solve_mpc returned for
\* X_hist[k] (zero when that solve was infeasible), X_hist[k+1] is
\* A*X_hist[k] + B*U_hist[k] with the controller's own A and B, and the
\* next solve is given the state just recorded.
C4_ClosedLoopRecurrence ==
    InSimulate =>
      /\ \A k \in 0..(StepsDone - 1) :
           /\ log[k + 1].x_current = Hist.X_hist[k + 1]
           /\ Hist.U_hist[k + 1] = log[k + 1].u_opt
           /\ log[k + 1].status = "infeasible" => Hist.U_hist[k + 1] = Zeros(ctrl.m)
           /\ Hist.X_hist[k + 2] =
                VecAdd(MatVec(ctrl.A, Hist.X_hist[k + 1]),
                       MatVec(ctrl.B, Hist.U_hist[k + 1]))
      /\ pc = "loop" => sim.x = sim.X_hist[sim.k + 1]

C4_Witness ==
    /\ result.kind = "simulate"
    /\ result.N_sim >= 2
    /\ log[1].status = "infeasible"
    /\ log[2].status = "optimal"
    /\ result.U_hist[2] # Zeros(ctrl.m)

\* Componentwise |u - v| <= Tol
Near(u, v) ==
    /\ Len(u) = Len(v)
    /\ \A i \in 1..Len(u) : RatLeq(RatAbs(RatSub(u[i], v[i])), Tol)

\* C5: a solve reported successful returns N+1 predicted states and N
\* predicted inputs, the first state is x_current and consecutive states obey
\* X[k+1] = A*X[k] + B*U[k], both to within the solver's tolerance, and the
\* returned input is exactly U[0].
C5_PredictionWithinTolerance ==
    \A r \in Calls :
      r.status = "optimal" =>
        /\ ~r.raised
        /\ Len(r.X_opt) = ctrl.N + 1
        /\ Len(r.U_opt) = ctrl.N
        /\ Near(r.X_opt[1], r.x_current)
        /\ \A k \in 0..(ctrl.N - 1) :
             Near(r.X_opt[k + 2], VecAdd(MatVec(ctrl.A, r.X_opt[k + 1]),
                                         MatVec(ctrl.B, r.U_opt[k + 1])))
        /\ r.u_opt = r.U_opt[1]

\* C5 as stated: the first predicted state equals x_current and consecutive
\* states obey the dynamics, exactly.
C5_PredictionExact ==
    \A r \in Calls :
      r.status = "optimal" =>
        /\ ~r.raised
        /\ Len(r.X_opt) = ctrl.N + 1
        /\ Len(r.U_opt) = ctrl.N
        /\ InitialCondition(r.X_opt[1], r.x_current)
        /\ \A k \in 0..(ctrl.N - 1) :
             Dynamics(ctrl, r.X_opt[k + 2], r.X_opt[k + 1], r.U_opt[k + 1])
        /\ r.u_opt = r.U_opt[1]

C5_Witness ==
    \E r \in Calls :
      /\ r.status = "optimal"
      /\ ctrl.N >= 2
      /\ r.u_opt # Zeros(ctrl.m)
      /\ r.X_opt[1] # r.x_current
      /\ r.X_opt[2] # r.X_opt[1]

\* C6: set_reference(r) leaves x_ref = r and u_ref = zeros(m) and no other
\* field changed; only set_reference (called directly or by simulate) writes
\* the reference, solve_mpc never does, and u_ref is the zero vector after
\* any sequence of operations.
FrameFields == {"A", "B", "N", "n", "m", "Q", "R", "Qn", "x_min", "x_max", "u_min", "u_max"}

C6_ReferenceFrame ==
    /\ [](ctrl.u_ref = Zeros(ctrl.m))
    /\ [](result.kind = "set_reference" => ctrl.x_ref = result.x_ref)
    /\ [][ /\ \A f \in FrameFields : ctrl'[f] = ctrl[f]
           /\ ctrl'.x_ref # ctrl.x_ref => result'.kind \in {"set_reference", "running"}
           /\ log' # <<>> => ctrl' = ctrl ]_vars

C6_Witness ==
    /\ result.kind = "simulate"
    /\ result.N_sim >= 1
    /\ ctrl.x_ref = Rats(<<1, 0>>)
    /\ ctrl.u_ref = Rats(<<0>>)

\* C7: with contradictory bounds (x_min[i] > x_max[i] or u_min[j] > u_max[j]
\* for some component) every solve is reported infeasible and returns the
\* zero input with null trajectories.
Crossed(lo, hi) == lo # None /\ hi # None /\ \E i \in 1..Len(lo) : RatLess(hi[i], lo[i])

Contradictory(self) == Crossed(self.x_min, self.x_max) \/ Crossed(self.u_min, self.u_max)

C7_ContradictoryBoundsInfeasible ==
    Contradictory(ctrl) =>
      \A r \in Calls : r.status = "infeasible" /\ Degraded(ctrl, r)

\* Bounds crossed by more than the two tolerances of the two rows leave no
\* assignment that meets both rows to Tol: every such solve is reported
\* infeasible and returns the zero input with null trajectories.
CrossedBeyond(lo, hi) ==
    /\ lo # None
    /\ hi # None
    /\ \E i \in 1..Len(lo) : RatLess(RatAdd(hi[i], RatAdd(Tol, Tol)), lo[i])

ContradictoryBeyondTolerance ==
    (CrossedBeyond(ctrl.x_min, ctrl.x_max) \/ CrossedBeyond(ctrl.u_min, ctrl.u_max)) =>
      \A r \in Calls : r.status = "infeasible" /\ Degraded(ctrl, r)

\* C10: a current state outside a configured state bound makes the QP
\* infeasible (the bound is imposed on X[0], which equals x_current), so
\* solve_mpc returns zero input and null trajectories, and simulate advances
\* every out-of-bounds state with u = 0; the configured x0 is such a state
\* (x0[1] above x_max[1], x0[2] below x_min[2]).
OutOfBounds(self, x) ==
    \/ self.x_min # None /\ ~Geq(x, self.x_min)
    \/ self.x_max # None /\ ~Leq(x, self.x_max)

C10_OutOfBoundsStateInfeasible ==
    /\ \A r \in Calls :
         OutOfBounds(ctrl, r.x_current) => r.status = "infeasible" /\ Degraded(ctrl, r)
    /\ InSimulate =>
         \A k \in 0..(StepsDone - 1) :
           OutOfBounds(ctrl, Hist.X_hist[k + 1]) =>
             /\ Hist.U_hist[k + 1] = Zeros(ctrl.m)
             /\ Hist.X_hist[k + 2] = MatVec(ctrl.A, Hist.X_hist[k + 1])
    /\ FLess(config.x_max[2], config.x0[2])
    /\ FLess(config.x0[3], config.x_min[3])

\* A current state outside a configured state bound by more than Tol is
\* reported infeasible, solve_mpc returns zero input and null trajectories,
\* and simulate advances it with u = 0.
OutOfBoundsBeyond(self, x) ==
    \/ self.x_min # None /\ \E i \in 1..Len(x) : RatLess(RatAdd(x[i], Tol), self.x_min[i])
    \/ self.x_max # None /\ \E i \in 1..Len(x) : RatLess(RatAdd(self.x_max[i], Tol), x[i])

OutOfBoundsBeyondTolerance ==
    /\ \A r \in Calls :
         OutOfBoundsBeyond(ctrl, r.x_current) =>
           r.status = "infeasible" /\ Degraded(ctrl, r)
    /\ InSimulate =>
         \A k \in 0..(StepsDone - 1) :
           OutOfBoundsBeyond(ctrl, Hist.X_hist[k + 1]) =>
             /\ Hist.U_hist[k + 1] = Zeros(ctrl.m)
             /\ Hist.X_hist[k + 2] = MatVec(ctrl.A, Hist.X_hist[k + 1])

\* C8: with the state ordered [x, x_dot, theta1, theta2, theta1_dot,
\* theta2_dot], rows 0-2 of A hold a single 1 each, at A[0,3], A[1,4] and
\* A[2,5], and thereby make the derivative of each position-type state its
\* own velocity-type state, for any positive parameters.
RateColumn ==
    [c \in {"x", "theta1", "theta2"} |->
       CASE c = "x" -> "x_dot"
         [] c = "theta1" -> "theta1_dot"
         [] c = "theta2" -> "theta2_dot"]

C8_KinematicRows ==
    pc # "start" =>
      /\ \A i \in 1..3, j \in 1..6 :
           system.A[i][j] = IF j = i + 3 THEN FOne ELSE FZero
      /\ \A i \in 1..3, j \in 1..6 :
           system.A[i][j] # FZero =>
             /\ StateColumns[i] \in DOMAIN RateColumn
             /\ StateColumns[j] = RateColumn[StateColumns[i]]

\* C9: the shipped run (N_sim = 400 from x0 = [0, 0.6, -0.6, 0, 0, 0]) returns
\* a history of finite values whose last 10 states are closer to the
\* reference than the initial state is.
DblMax == Dec(17976931, 301)

Finite(a) == FLess(a, DblMax) /\ FLess(FNeg(DblMax), a)

RECURSIVE Dist2(_, _, _, _)
Dist2(X, ref, from, to) ==
    IF from > to THEN FZero
    ELSE FAdd(Dist2(X, ref, from + 1, to),
              FDot(FVecSub(X[from], ref), FVecSub(X[from], ref)))

C9_ShippedRunConverges ==
    (pc = "returned" /\ result.kind = "simulate") =>
      /\ \A i \in DOMAIN result.X_hist : \A j \in 1..6 : Finite(result.X_hist[i][j])
      /\ \A i \in DOMAIN result.U_hist : Finite(result.U_hist[i][1])
      /\ FLess(Dist2(result.X_hist, ctrl.x_ref, result.N_sim - 8, result.N_sim + 1),
               Dist2(result.X_hist, ctrl.x_ref, 1, 1))

====
